---- MODULE Spec2Model ----
(***************************************************************************)
(* ThreadPool (src/code/threadpool.h) and ThreadInfo (src/unnamed/part_002) *)
(* as a state machine.  The pool is a PcoHoareMonitor: monitorIn/monitorOut *)
(* and wait/signal are modelled by the semaphores the monitor is built of   *)
(* (mutex, the signallers' semaphore, the condition's semaphore), because   *)
(* shutdown() calls signal() without entering the monitor.                  *)
(***************************************************************************)
EXTENDS Integers, Sequences, FiniteSets

\* ------------------------------------------------------------------ bounds
NumCallers == 2
NumTasks == 3
MaxThreads == 2
MaxWaiting == 2
MaxIdle == 1
\* width of size_t, scaled down (the counters stay far below 2^SizeBits)
SizeBits == 2

IdleThreadsCap == MaxThreads + 1
SizeModulus == 2^SizeBits

Callers == 1..NumCallers
Tasks == 1..NumTasks
\* createThread() runs at most once per start() call: thread ids are 1..NumTasks
Threads == 1..NumTasks
NoTask == 0

VARIABLES
    \* constructor arguments
    maxThreadCount, maxNbWaiting, idleTimeout,
    \* ThreadPool fields
    waitingTasks, idleThreads, nbTasksWaitingForThreads, isShuttingDown,
    threadPool, threadCounter,
    \* ThreadInfo::isRunning of every thread ever created
    isRunning,
    \* PcoHoareMonitor: mutex, signallers' semaphore and its counter,
    \* Condition waitForThread: waiters' counter and semaphore
    monitorMutex, monitorNbSignale, monitorSignale, waitNbWaiting, waitSem,
    \* submitters: position inside start(), the runnable passed, pending return value
    spc, runnable, sret,
    \* workers: position inside workerTask()/taskRunner(), task held, didWork,
    \* time elapsed since lastWorkTime (capped at idleTimeout)
    wpc, task, didWork, elapsed,
    \* the thread that destroys the pool: position inside shutdown(), loop index, loop end
    dpc, di, dn,
    \* observation (history) variables
    nextTask, result, shutdownRejected, runCount, cancelCount, pushed, dequeued,
    executionOrder, finished, inStartAtShutdown, waitingAtShutdown, nbCallers

config == <<maxThreadCount, maxNbWaiting, idleTimeout, nbCallers>>
pool == <<waitingTasks, idleThreads, nbTasksWaitingForThreads, isShuttingDown,
          threadPool, threadCounter>>
monitor == <<monitorMutex, monitorNbSignale, monitorSignale, waitNbWaiting, waitSem>>
submitters == <<spc, runnable, sret>>
workers == <<wpc, task, didWork, elapsed>>
destroyer == <<dpc, di, dn>>
history == <<nextTask, result, shutdownRejected, runCount, cancelCount, pushed,
             dequeued, executionOrder, finished, inStartAtShutdown,
             waitingAtShutdown>>
vars == <<config, pool, isRunning, monitor, submitters, workers, destroyer, history>>

\* ------------------------------------------------------------------ helpers
\* ThreadPool::currentNbThreads: count of registry entries whose isRunning is true
currentNbThreads ==
    Cardinality({i \in 1..Len(threadPool) : isRunning[threadPool[i]]})

\* PcoHoareMonitor::monitorOut: hand the monitor to a blocked signaller if there
\* is one, else release the mutex.  Returns the new <<mutex, signale>> pair.
monitorOutMutex == IF monitorNbSignale > 0 THEN monitorMutex ELSE monitorMutex + 1
monitorOutSignale == IF monitorNbSignale > 0 THEN monitorSignale + 1 ELSE monitorSignale

\* ------------------------------------------------------------------ Init
\* ThreadPool::ThreadPool with valid arguments; no start() call made yet.
\* nbTasksWaitingForThreads starts at 0 as declared in the copy of the class in
\* threadInfo.h (`= 0`); the copy in threadpool.h leaves it uninitialised,
\* which is what InitNew, ThreadPool_ctor and SpecUninit model.
Init ==
    /\ maxThreadCount \in 1..MaxThreads
    /\ maxNbWaiting \in 0..MaxWaiting
    /\ idleTimeout \in 0..MaxIdle
    /\ nbCallers \in 1..NumCallers
    /\ waitingTasks = <<>>
    /\ idleThreads = 0
    /\ nbTasksWaitingForThreads = 0
    /\ isShuttingDown = FALSE
    /\ threadPool = <<>>
    /\ threadCounter = 0
    /\ isRunning = [w \in Threads |-> FALSE]
    /\ monitorMutex = 1
    /\ monitorNbSignale = 0
    /\ monitorSignale = 0
    /\ waitNbWaiting = 0
    /\ waitSem = 0
    /\ spc = [c \in Callers |-> "idle"]
    /\ runnable = [c \in Callers |-> NoTask]
    /\ sret = [c \in Callers |-> TRUE]
    /\ wpc = [w \in Threads |-> "none"]
    /\ task = [w \in Threads |-> NoTask]
    /\ didWork = [w \in Threads |-> FALSE]
    /\ elapsed = [w \in Threads |-> 0]
    /\ dpc = "alive"
    /\ di = 0
    /\ dn = 0
    /\ nextTask = 1
    /\ result = [t \in Tasks |-> "none"]
    /\ shutdownRejected = {}
    /\ runCount = [t \in Tasks |-> 0]
    /\ cancelCount = [t \in Tasks |-> 0]
    /\ pushed = <<>>
    /\ dequeued = <<>>
    /\ executionOrder = <<>>
    /\ finished = {}
    /\ inStartAtShutdown = {}
    /\ waitingAtShutdown = {}

\* ------------------------------------------------------------------ constructor
\* (the validation with maxThreadCount = 0 let through)
invalid_argumentNegativeOnly(mtc, mnw, it) == mtc < 0 \/ mnw < 0 \/ it < 0

\* ThreadPool::ThreadPool: the three tests that throw std::invalid_argument
invalid_argument(mtc, mnw, it) == mtc <= 0 \/ mnw < 0 \/ it < 0

\* before construction: the arguments are any integers, the scalar fields hold
\* whatever the memory holds, nothing else exists yet
InitNew ==
    /\ maxThreadCount \in (0 - 1)..MaxThreads
    /\ maxNbWaiting \in (0 - 1)..MaxWaiting
    /\ idleTimeout \in (0 - 1)..MaxIdle
    /\ nbCallers \in 1..NumCallers
    /\ waitingTasks = <<>>
    /\ idleThreads \in 0..1
    /\ nbTasksWaitingForThreads \in 0..(SizeModulus - 1)
    /\ isShuttingDown \in BOOLEAN
    /\ threadPool = <<>>
    /\ threadCounter = 0
    /\ isRunning = [w \in Threads |-> FALSE]
    /\ monitorMutex = 1
    /\ monitorNbSignale = 0
    /\ monitorSignale = 0
    /\ waitNbWaiting = 0
    /\ waitSem = 0
    /\ spc = [c \in Callers |-> "idle"]
    /\ runnable = [c \in Callers |-> NoTask]
    /\ sret = [c \in Callers |-> TRUE]
    /\ wpc = [w \in Threads |-> "none"]
    /\ task = [w \in Threads |-> NoTask]
    /\ didWork = [w \in Threads |-> FALSE]
    /\ elapsed = [w \in Threads |-> 0]
    /\ dpc = "new"
    /\ di = 0
    /\ dn = 0
    /\ nextTask = 1
    /\ result = [t \in Tasks |-> "none"]
    /\ shutdownRejected = {}
    /\ runCount = [t \in Tasks |-> 0]
    /\ cancelCount = [t \in Tasks |-> 0]
    /\ pushed = <<>>
    /\ dequeued = <<>>
    /\ executionOrder = <<>>
    /\ finished = {}
    /\ inStartAtShutdown = {}
    /\ waitingAtShutdown = {}

\* ThreadPool::ThreadPool: the member initialisers (idleThreads(0),
\* isShuttingDown(false), empty queue and registry), then the validation:
\* the constructor throws, or returns a pool ready for start()
ThreadPool_ctor ==
    /\ dpc = "new"
    /\ idleThreads' = 0
    /\ isShuttingDown' = FALSE
    /\ waitingTasks' = <<>>
    /\ threadPool' = <<>>
    /\ dpc' = IF invalid_argument(maxThreadCount, maxNbWaiting, idleTimeout)
              THEN "invalid_argument" ELSE "alive"
    /\ UNCHANGED <<config, nbTasksWaitingForThreads, threadCounter, isRunning,
                   monitor, submitters, workers, di, dn, history>>

SpecCtor == InitNew /\ [][ThreadPool_ctor]_vars

\* ------------------------------------------------------------------ start()
\* (the refusal test without the isShuttingDown flag)
startRefusesIgnoringFlag == maxThreadCount < 0

\* start(): `if (isShuttingDown || maxThreadCount < 0)`
startRefuses == isShuttingDown \/ maxThreadCount < 0

\* start(): the call, monitorIn(), and the refusal test
start_monitorIn(c) ==
    /\ dpc \notin {"new", "invalid_argument"}
    /\ c <= nbCallers
    /\ spc[c] = "idle"
    /\ nextTask <= NumTasks
    /\ monitorMutex > 0
    /\ monitorMutex' = monitorMutex - 1
    /\ runnable' = [runnable EXCEPT ![c] = nextTask]
    /\ nextTask' = nextTask + 1
    /\ IF startRefuses
       THEN /\ spc' = [spc EXCEPT ![c] = "out"]
            /\ sret' = [sret EXCEPT ![c] = FALSE]
            /\ shutdownRejected' = shutdownRejected \cup {nextTask}
       ELSE /\ spc' = [spc EXCEPT ![c] = "admit"]
            /\ UNCHANGED <<sret, shutdownRejected>>
    /\ UNCHANGED <<config, pool, isRunning, monitorNbSignale, monitorSignale,
                   waitNbWaiting, waitSem, workers, destroyer, result,
                   runCount, cancelCount, pushed, dequeued, executionOrder, finished,
                   inStartAtShutdown, waitingAtShutdown>>

\* (startBranch with the capacity test off by one)
startBranchOffByOne(q) ==
    IF idleThreads > 0 THEN "signal"
    ELSE IF currentNbThreads <= maxThreadCount THEN "create"
    ELSE IF Len(q) - 1 < maxNbWaiting THEN "wait"
    ELSE "cancel"

\* (startBranch without the capacity test)
startBranchNoCapacityTest(q) ==
    IF idleThreads > 0 THEN "signal" ELSE "create"

\* (startBranch with the capacity test before the idle-worker test)
startBranchCapacityFirst(q) ==
    IF currentNbThreads < maxThreadCount THEN "create"
    ELSE IF idleThreads > 0 THEN "signal"
    ELSE IF Len(q) - 1 < maxNbWaiting THEN "wait"
    ELSE "cancel"

\* (startBranch without the queue test: at capacity the caller always waits)
startBranchNoQueueTest(q) ==
    IF idleThreads > 0 THEN "signal"
    ELSE IF currentNbThreads < maxThreadCount THEN "create"
    ELSE "wait"

\* (startBranch with the queue test letting one task too many wait)
startBranchWaitWhenFull(q) ==
    IF idleThreads > 0 THEN "signal"
    ELSE IF currentNbThreads < maxThreadCount THEN "create"
    ELSE IF Len(q) - 1 <= maxNbWaiting THEN "wait"
    ELSE "cancel"

\* the admission branch start() takes once the task is in the queue (q)
startBranch(q) ==
    IF idleThreads > 0 THEN "signal"
    ELSE IF currentNbThreads < maxThreadCount THEN "create"
    ELSE IF Len(q) - 1 < maxNbWaiting THEN "wait"
    ELSE "cancel"

\* start(), rejection: the task cancelRun() is invoked on, and the queue after pop()
cancelled(q) == Head(q)
afterCancelNoPop(q) == q
afterCancel(q) == Tail(q)

\* start(): push, then the four admission branches
start_admit(c) ==
    /\ spc[c] = "admit"
    /\ pushed' = Append(pushed, runnable[c])
    /\ LET q == Append(waitingTasks, runnable[c])
           b == startBranch(q)
       IN  CASE b = "signal" ->
                  \* signal(condTaskAvailable): nobody ever waits on it
                  /\ waitingTasks' = q
                  /\ spc' = [spc EXCEPT ![c] = "out"]
                  /\ sret' = [sret EXCEPT ![c] = TRUE]
                  /\ UNCHANGED <<idleThreads, nbTasksWaitingForThreads, threadPool,
                                 threadCounter, isRunning, monitor, wpc, elapsed,
                                 cancelCount>>
             [] b = "create" ->
                  \* createThread(): ++threadCounter, emplace_back, ThreadInfo::start
                  /\ waitingTasks' = q
                  /\ threadCounter' = threadCounter + 1
                  /\ threadPool' = Append(threadPool, threadCounter + 1)
                  /\ isRunning' = [isRunning EXCEPT ![threadCounter + 1] = TRUE]
                  /\ wpc' = [wpc EXCEPT ![threadCounter + 1] = "loop"]
                  /\ elapsed' = [elapsed EXCEPT ![threadCounter + 1] = 0]
                  /\ spc' = [spc EXCEPT ![c] = "out"]
                  /\ sret' = [sret EXCEPT ![c] = TRUE]
                  /\ UNCHANGED <<idleThreads, nbTasksWaitingForThreads, monitor,
                                 cancelCount>>
             [] b = "wait" ->
                  \* ++nbTasksWaitingForThreads; wait(waitForThread) releases the monitor
                  /\ waitingTasks' = q
                  /\ nbTasksWaitingForThreads'
                        = (nbTasksWaitingForThreads + 1) % SizeModulus
                  /\ waitNbWaiting' = waitNbWaiting + 1
                  /\ monitorMutex' = monitorOutMutex
                  /\ monitorSignale' = monitorOutSignale
                  /\ spc' = [spc EXCEPT ![c] = "wait"]
                  /\ sret' = [sret EXCEPT ![c] = TRUE]
                  /\ UNCHANGED <<idleThreads, threadPool, threadCounter, isRunning,
                                 monitorNbSignale, waitSem, wpc, elapsed, cancelCount>>
             [] b = "cancel" ->
                  \* waitingTasks.front()->cancelRun(); waitingTasks.pop()
                  /\ cancelCount' = [cancelCount EXCEPT ![cancelled(q)] = @ + 1]
                  /\ waitingTasks' = afterCancel(q)
                  /\ spc' = [spc EXCEPT ![c] = "out"]
                  /\ sret' = [sret EXCEPT ![c] = FALSE]
                  /\ UNCHANGED <<idleThreads, nbTasksWaitingForThreads, threadPool,
                                 threadCounter, isRunning, monitor, wpc, elapsed>>
    /\ UNCHANGED <<config, isShuttingDown, runnable, task, didWork, destroyer,
                   nextTask, result, shutdownRejected, runCount, dequeued,
                   executionOrder, finished,
                   inStartAtShutdown, waitingAtShutdown>>

\* start(): resumed from wait(waitForThread); --nbTasksWaitingForThreads
start_resume(c) ==
    /\ spc[c] = "wait"
    /\ waitSem > 0
    /\ waitSem' = waitSem - 1
    /\ waitNbWaiting' = waitNbWaiting - 1
    /\ nbTasksWaitingForThreads' = (nbTasksWaitingForThreads - 1) % SizeModulus
    /\ spc' = [spc EXCEPT ![c] = "out"]
    /\ UNCHANGED <<config, waitingTasks, idleThreads, isShuttingDown, threadPool,
                   threadCounter, isRunning, monitorMutex, monitorNbSignale,
                   monitorSignale, runnable, sret, workers, destroyer, history>>

\* start(): caller c, woken from wait(waitForThread), executes
\* --nbTasksWaitingForThreads while caller d, in its monitor section, executes
\* ++nbTasksWaitingForThreads before its own wait(waitForThread).  The two
\* unsynchronised read-modify-write sequences overlap and one update is lost
\* (the outcomes where none is lost are those of start_resume(c) and
\* start_admit(d) one after the other).
start_counterRace(c, d) ==
    /\ c # d
    /\ spc[c] = "wait"
    /\ waitSem > 0
    /\ spc[d] = "admit"
    /\ startBranch(Append(waitingTasks, runnable[d])) = "wait"
    /\ pushed' = Append(pushed, runnable[d])
    /\ waitingTasks' = Append(waitingTasks, runnable[d])
    /\ \E lost \in {1, 0 - 1} :
          nbTasksWaitingForThreads' = (nbTasksWaitingForThreads + lost) % SizeModulus
    /\ waitSem' = waitSem - 1
    /\ monitorMutex' = monitorOutMutex
    /\ monitorSignale' = monitorOutSignale
    /\ spc' = [spc EXCEPT ![c] = "out", ![d] = "wait"]
    /\ sret' = [sret EXCEPT ![d] = TRUE]
    /\ UNCHANGED <<config, idleThreads, isShuttingDown, threadPool, threadCounter,
                   isRunning, monitorNbSignale, waitNbWaiting, runnable, workers,
                   destroyer, nextTask, result, shutdownRejected, runCount,
                   cancelCount, dequeued, executionOrder, finished,
                   inStartAtShutdown, waitingAtShutdown>>

\* start(): monitorOut() and return
start_monitorOut(c) ==
    /\ spc[c] = "out"
    /\ monitorMutex' = monitorOutMutex
    /\ monitorSignale' = monitorOutSignale
    /\ result' = [result EXCEPT ![runnable[c]] = IF sret[c] THEN "true" ELSE "false"]
    /\ spc' = [spc EXCEPT ![c] = "idle"]
    /\ UNCHANGED <<config, pool, isRunning, monitorNbSignale, waitNbWaiting, waitSem,
                   runnable, sret, workers, destroyer, nextTask, shutdownRejected,
                   runCount, cancelCount, pushed, dequeued, executionOrder, finished,
                   inStartAtShutdown, waitingAtShutdown>>

\* ------------------------------------------------------------------ workers
\* ThreadInfo::workerTask of a new thread: the first `while (isRunning)`
workerTask_loop(w) ==
    /\ wpc[w] = "loop"
    /\ wpc' = [wpc EXCEPT ![w] = IF isRunning[w] THEN "enter" ELSE "done"]
    /\ UNCHANGED <<config, pool, isRunning, monitor, submitters, task, didWork,
                   elapsed, destroyer, history>>

\* taskRunner(): monitorIn()
taskRunner_monitorIn(w) ==
    /\ wpc[w] = "enter"
    /\ monitorMutex > 0
    /\ monitorMutex' = monitorMutex - 1
    /\ wpc' = [wpc EXCEPT ![w] = "mon"]
    /\ UNCHANGED <<config, pool, isRunning, monitorNbSignale, monitorSignale,
                   waitNbWaiting, waitSem, submitters, task, didWork, elapsed,
                   destroyer, history>>

\* q without its i-th element
Without(q, i) == SubSeq(q, 1, i - 1) \o SubSeq(q, i + 1, Len(q))

\* taskRunner(): the position in the queue of the task a worker takes
\* (waitingTasks.front(), then waitingTasks.pop())
taskRunnerLast(q) == Len(q)
taskRunnerFront(q) == 1

\* taskRunner(): ++idleThreads.  The counter is never decremented and the code only
\* tests idleThreads > 0, so it is counted up to IdleThreadsCap (above any number
\* of live workers) and then stays there.
incrIdleThreads == IF idleThreads < IdleThreadsCap THEN idleThreads + 1 ELSE idleThreads

\* taskRunner(), inside the monitor: shutting down, queue non-empty, queue empty
taskRunner_body(w) ==
    /\ wpc[w] = "mon"
    /\ IF isShuttingDown
       THEN /\ wpc' = [wpc EXCEPT ![w] = "out"]
            /\ UNCHANGED <<waitingTasks, idleThreads, task, dequeued, monitorNbSignale,
                           waitSem>>
       ELSE IF waitingTasks # <<>>
       THEN /\ task' = [task EXCEPT ![w] = waitingTasks[taskRunnerFront(waitingTasks)]]
            /\ waitingTasks' = Without(waitingTasks, taskRunnerFront(waitingTasks))
            /\ dequeued' = Append(dequeued, waitingTasks[taskRunnerFront(waitingTasks)])
            /\ wpc' = [wpc EXCEPT ![w] = "out"]
            /\ UNCHANGED <<idleThreads, monitorNbSignale, waitSem>>
       ELSE /\ idleThreads' = incrIdleThreads
            /\ IF nbTasksWaitingForThreads > 0 /\ waitNbWaiting > 0
               THEN \* signal(waitForThread): wake a waiter, block on monitorSignale
                    /\ monitorNbSignale' = monitorNbSignale + 1
                    /\ waitSem' = waitSem + 1
                    /\ wpc' = [wpc EXCEPT ![w] = "signalled"]
               ELSE /\ wpc' = [wpc EXCEPT ![w] = "out"]
                    /\ UNCHANGED <<monitorNbSignale, waitSem>>
            /\ UNCHANGED <<waitingTasks, task, dequeued>>
    /\ UNCHANGED <<config, nbTasksWaitingForThreads, isShuttingDown, threadPool,
                   threadCounter, isRunning, monitorMutex, monitorSignale,
                   waitNbWaiting, submitters, didWork, elapsed, destroyer, nextTask,
                   result, shutdownRejected, runCount, cancelCount, pushed,
                   executionOrder, finished,
                   inStartAtShutdown, waitingAtShutdown>>

\* taskRunner(): signal(waitForThread) returns once the woken submitter left the monitor
taskRunner_signalled(w) ==
    /\ wpc[w] = "signalled"
    /\ monitorSignale > 0
    /\ monitorSignale' = monitorSignale - 1
    /\ monitorNbSignale' = monitorNbSignale - 1
    /\ wpc' = [wpc EXCEPT ![w] = "out"]
    /\ UNCHANGED <<config, pool, isRunning, monitorMutex, waitNbWaiting, waitSem,
                   submitters, task, didWork, elapsed, destroyer, history>>

\* taskRunner(): monitorOut(); with a task in hand invoke task->run(), else return false
taskRunner_monitorOut(w) ==
    /\ wpc[w] = "out"
    /\ monitorMutex' = monitorOutMutex
    /\ monitorSignale' = monitorOutSignale
    /\ IF task[w] # NoTask
       THEN /\ wpc' = [wpc EXCEPT ![w] = "running"]
            /\ runCount' = [runCount EXCEPT ![task[w]] = @ + 1]
            /\ UNCHANGED didWork
       ELSE /\ wpc' = [wpc EXCEPT ![w] = "post"]
            /\ didWork' = [didWork EXCEPT ![w] = FALSE]
            /\ UNCHANGED runCount
    /\ UNCHANGED <<config, pool, isRunning, monitorNbSignale, waitNbWaiting, waitSem,
                   submitters, task, elapsed, destroyer, nextTask, result,
                   shutdownRejected, cancelCount, pushed, dequeued, executionOrder,
                   finished,
                   inStartAtShutdown, waitingAtShutdown>>

\* taskRunner(): the body of task->run() takes effect and returns; return true
run_end(w) ==
    /\ wpc[w] = "running"
    /\ executionOrder' = Append(executionOrder, task[w])
    /\ finished' = finished \cup {task[w]}
    /\ task' = [task EXCEPT ![w] = NoTask]
    /\ didWork' = [didWork EXCEPT ![w] = TRUE]
    /\ wpc' = [wpc EXCEPT ![w] = "post"]
    /\ UNCHANGED <<config, pool, isRunning, monitor, submitters, elapsed, destroyer,
                   nextTask, result, shutdownRejected, runCount, cancelCount, pushed,
                   dequeued,
                   inStartAtShutdown, waitingAtShutdown>>

\* taskRunner(): task->run() throws a std::exception; the handler logs it and
\* returns false (the copy of taskRunner() in threadInfo.h; the one in
\* threadpool.h has no handler)
run_throws(w) ==
    /\ wpc[w] = "running"
    /\ task' = [task EXCEPT ![w] = NoTask]
    /\ didWork' = [didWork EXCEPT ![w] = FALSE]
    /\ wpc' = [wpc EXCEPT ![w] = "caught"]
    /\ UNCHANGED <<config, pool, isRunning, monitor, submitters, elapsed, destroyer,
                   history>>

\* (the idle-timeout test with the didWork flag inverted)
idleTooLongDidWork(w) == elapsed[w] >= idleTimeout /\ didWork[w]

\* ThreadInfo::workerTask: the idle-timeout test after taskRunner() returned
idleTooLong(w) == elapsed[w] >= idleTimeout /\ ~didWork[w]

\* (workerTask's idle test applied also while taskRunner() is still in run())
workerTask_postWhileRunning(w) ==
    /\ wpc[w] \in {"post", "caught", "running"}
    /\ IF idleTooLong(w)
       THEN /\ isRunning' = [isRunning EXCEPT ![w] = FALSE]
            /\ wpc' = [wpc EXCEPT ![w] = "done"]
            /\ UNCHANGED <<elapsed, didWork>>
       ELSE /\ elapsed' = [elapsed EXCEPT ![w] = IF didWork[w] THEN 0 ELSE @]
            /\ didWork' = [didWork EXCEPT ![w] = FALSE]
            /\ wpc' = [wpc EXCEPT ![w] = IF isRunning[w] THEN "enter" ELSE "done"]
            /\ UNCHANGED isRunning
    /\ UNCHANGED <<config, pool, monitor, submitters, task, destroyer, history>>

\* ThreadInfo::workerTask: exit when idle too long; else record lastWorkTime,
\* reset didWork and test `while (isRunning)` again
workerTask_post(w) ==
    /\ wpc[w] \in {"post", "caught"}
    /\ IF idleTooLong(w)
       THEN /\ isRunning' = [isRunning EXCEPT ![w] = FALSE]
            /\ wpc' = [wpc EXCEPT ![w] = "done"]
            /\ UNCHANGED <<elapsed, didWork>>
       ELSE /\ elapsed' = [elapsed EXCEPT ![w] = IF didWork[w] THEN 0 ELSE @]
            /\ didWork' = [didWork EXCEPT ![w] = FALSE]
            /\ wpc' = [wpc EXCEPT ![w] = IF isRunning[w] THEN "enter" ELSE "done"]
            /\ UNCHANGED isRunning
    /\ UNCHANGED <<config, pool, monitor, submitters, task, destroyer, history>>

\* std::chrono::steady_clock advances by one unit (counted up to idleTimeout)
Tick ==
    /\ \E w \in Threads : wpc[w] \notin {"none", "done"} /\ elapsed[w] < idleTimeout
    /\ elapsed' = [w \in Threads |->
                     IF wpc[w] \notin {"none", "done"} /\ elapsed[w] < idleTimeout
                     THEN elapsed[w] + 1 ELSE elapsed[w]]
    /\ UNCHANGED <<config, pool, isRunning, monitor, submitters, wpc, task, didWork,
                   destroyer, history>>

\* ------------------------------------------------------------------ shutdown()
\* ~ThreadPool -> shutdown(): isShuttingDown = true, without entering the monitor
shutdown_begin ==
    /\ dpc = "alive"
    /\ isShuttingDown' = TRUE
    /\ dpc' = "signal"
    /\ di' = 1
    /\ dn' = Len(threadPool)
    /\ inStartAtShutdown' = {c \in Callers : spc[c] # "idle"}
    /\ waitingAtShutdown' = {c \in Callers : spc[c] = "wait"}
    /\ UNCHANGED <<config, waitingTasks, idleThreads, nbTasksWaitingForThreads,
                   threadPool, threadCounter, isRunning, monitor, submitters, workers,
                   nextTask, result, shutdownRejected, runCount, cancelCount, pushed,
                   dequeued, executionOrder, finished>>

\* shutdown(): one iteration of `for (auto &thread : threadPool)`:
\* signal(condTaskAvailable) (no waiter, no effect); signal(waitForThread)
shutdown_signal ==
    /\ dpc = "signal"
    /\ IF di > dn
       THEN /\ dpc' = "stop"
            /\ di' = 1
            /\ UNCHANGED <<monitorNbSignale, waitSem>>
       ELSE IF waitNbWaiting > 0
       THEN /\ monitorNbSignale' = monitorNbSignale + 1
            /\ waitSem' = waitSem + 1
            /\ dpc' = "signalled"
            /\ UNCHANGED di
       ELSE /\ di' = di + 1
            /\ UNCHANGED <<dpc, monitorNbSignale, waitSem>>
    /\ UNCHANGED <<config, pool, isRunning, monitorMutex, monitorSignale,
                   waitNbWaiting, submitters, workers, dn, history>>

\* shutdown(): signal(waitForThread) returns
shutdown_signalled ==
    /\ dpc = "signalled"
    /\ monitorSignale > 0
    /\ monitorSignale' = monitorSignale - 1
    /\ monitorNbSignale' = monitorNbSignale - 1
    /\ di' = di + 1
    /\ dpc' = "signal"
    /\ UNCHANGED <<config, pool, isRunning, monitorMutex, waitNbWaiting, waitSem,
                   submitters, workers, dn, history>>

\* threadPool.clear() -> ~ThreadInfo of the next entry: isRunning = false;
\* after the last entry the vector is empty
shutdown_stop ==
    /\ dpc = "stop"
    /\ IF di > Len(threadPool)
       THEN /\ threadPool' = <<>>
            /\ dpc' = "drain"
            /\ UNCHANGED isRunning
       ELSE /\ isRunning' = [isRunning EXCEPT ![threadPool[di]] = FALSE]
            /\ dpc' = "join"
            /\ UNCHANGED threadPool
    /\ UNCHANGED <<config, waitingTasks, idleThreads, nbTasksWaitingForThreads,
                   isShuttingDown, threadCounter, monitor, submitters, workers, di, dn,
                   history>>

\* ~ThreadInfo: thread->join() returns once workerTask() has returned
shutdown_join ==
    /\ dpc = "join"
    /\ wpc[threadPool[di]] = "done"
    /\ di' = di + 1
    /\ dpc' = "stop"
    /\ UNCHANGED <<config, pool, isRunning, monitor, submitters, workers, dn, history>>

\* shutdown(): while (!waitingTasks.empty()) waitingTasks.pop()  -- no cancelRun()
shutdown_drain ==
    /\ dpc = "drain"
    /\ waitingTasks' = <<>>
    /\ dpc' = "done"
    /\ UNCHANGED <<config, idleThreads, nbTasksWaitingForThreads, isShuttingDown,
                   threadPool, threadCounter, isRunning, monitor, submitters, workers,
                   di, dn, history>>

\* ------------------------------------------------------------------ specification
Next ==
    \/ \E c \in Callers : start_monitorIn(c)
    \/ \E c \in Callers : start_admit(c)
    \/ \E c \in Callers : start_resume(c)
    \/ \E c \in Callers : start_monitorOut(c)
    \/ \E w \in Threads : workerTask_loop(w)
    \/ \E w \in Threads : taskRunner_monitorIn(w)
    \/ \E w \in Threads : taskRunner_body(w)
    \/ \E w \in Threads : taskRunner_signalled(w)
    \/ \E w \in Threads : taskRunner_monitorOut(w)
    \/ \E w \in Threads : run_end(w)
    \/ \E w \in Threads : workerTask_post(w)
    \/ Tick
    \/ shutdown_begin
    \/ shutdown_signal
    \/ shutdown_signalled
    \/ shutdown_stop
    \/ shutdown_join
    \/ shutdown_drain

Spec == Init /\ [][Next]_vars

\* the pool in use, never destroyed: start() calls, workers, the clock
NextAlive ==
    \/ \E c \in Callers : start_monitorIn(c)
    \/ \E c \in Callers : start_admit(c)
    \/ \E c \in Callers : start_resume(c)
    \/ \E c \in Callers : start_monitorOut(c)
    \/ \E w \in Threads : workerTask_loop(w)
    \/ \E w \in Threads : taskRunner_monitorIn(w)
    \/ \E w \in Threads : taskRunner_body(w)
    \/ \E w \in Threads : taskRunner_signalled(w)
    \/ \E w \in Threads : taskRunner_monitorOut(w)
    \/ \E w \in Threads : run_end(w)
    \/ \E w \in Threads : workerTask_post(w)
    \/ Tick

\* one step of caller c inside start() (making the call is the client's choice)
InStart(c) == start_admit(c) \/ start_resume(c) \/ start_monitorOut(c)

\* one step of worker thread w; run_end(w) is a task body that terminates
WorkerStep(w) ==
    \/ workerTask_loop(w) \/ taskRunner_monitorIn(w) \/ taskRunner_body(w)
    \/ taskRunner_signalled(w) \/ taskRunner_monitorOut(w)
    \/ run_end(w) \/ workerTask_post(w)

\* every thread that can run does run (std::thread scheduling), time passes
SpecAlive ==
    /\ Init
    /\ [][NextAlive]_vars
    /\ \A c \in Callers : WF_vars(InStart(c))
    /\ \A w \in Threads : WF_vars(WorkerStep(w))
    /\ WF_vars(Tick)

\* construction of the threadpool.h copy (nbTasksWaitingForThreads holds
\* whatever the memory held), then the pool in use
NextUninit ==
    \/ ThreadPool_ctor
    \/ NextAlive

SpecUninit == InitNew /\ [][NextUninit]_vars

\* the pool in use, with tasks whose run() may throw
NextThrow ==
    \/ NextAlive
    \/ \E w \in Threads : run_throws(w)

SpecThrow == Init /\ [][NextThrow]_vars

\* the whole pool, with the overlapping updates of nbTasksWaitingForThreads
\* that become possible once monitor sections are no longer exclusive
NextRace ==
    \/ Next
    \/ \E c, d \in Callers : start_counterRace(c, d)

SpecRace == Init /\ [][NextRace]_vars

\* ------------------------------------------------------------------ properties
\* position of task t in sequence s (0 when absent)
Pos(s, t) == IF \E i \in 1..Len(s) : s[i] = t
             THEN CHOOSE i \in 1..Len(s) : s[i] = t ELSE 0

\* tasks a worker holds (dequeued, run() not yet returned)
Executing == {w \in Threads : task[w] # NoTask}
\* tasks queued or executing
Outstanding == Len(waitingTasks) + Cardinality(Executing)
\* no start() call is in progress
NoStartInProgress == \A c \in Callers : spc[c] = "idle"
\* every worker thread has exited (or was never created)
NoWorkerLeft == \A w \in Threads : wpc[w] \in {"none", "done"}
\* nothing is in progress and the pool has not been destroyed
Quiescent == NoStartInProgress /\ NoWorkerLeft /\ dpc = "alive"
\* the start() calls made so far
Called == 1..(nextTask - 1)

\* C1: in every reachable state the number of live workers (currentNbThreads())
\* is at most maxThreadCount.
C1_Capacity == currentNbThreads <= maxThreadCount

\* C1 witness: the pool is at capacity with two workers and a submitter had to wait
C1_Witness ==
    /\ maxThreadCount = 2
    /\ currentNbThreads = 2
    /\ \E c \in Callers : spc[c] = "wait"

\* C2: at every stable point (no start() call in progress) the queue holds at
\* most maxNbWaiting tasks.
C2_QueueBound ==
    (NoStartInProgress /\ dpc = "alive") => Len(waitingTasks) <= maxNbWaiting

\* C3: a task whose start() returned true is eventually run.  Finite form: once
\* every worker has exited and no call is in progress (nothing can run any more),
\* every task whose start() returned true has been run.
C3_AcceptedRuns ==
    Quiescent => \A t \in Tasks : result[t] = "true" => runCount[t] >= 1

\* C4: if start(task) returns false while the pool is not shutting down, then
\* cancelRun() was invoked on that very task and run() is never invoked on it.
C4_RejectedIsCancelled ==
    \A t \in Tasks :
        (result[t] = "false" /\ t \notin shutdownRejected)
            => (cancelCount[t] = 1 /\ runCount[t] = 0)

\* C5: no task receives both run() and cancelRun(), nor either of them twice.
C5_AtMostOneTerminalCall ==
    \A t \in Tasks : runCount[t] + cancelCount[t] <= 1

\* C5 witness: one task has been run and another one has been cancelled
C5_Witness ==
    \E t, u \in Tasks : runCount[t] = 1 /\ cancelCount[u] = 1 /\ finished # {}

\* C6: every task start() has put in the queue gets run() or cancelRun(),
\* also when it is still queued at shutdown.  Finite form: once the destructor
\* has returned (no start() call was in progress when it began) and every thread
\* is out of the pool, no queued task got neither.
C6_QueuedGetsTerminalCall ==
    (dpc = "done" /\ inStartAtShutdown = {} /\ NoStartInProgress /\ NoWorkerLeft)
        => \A i \in 1..Len(pushed) : runCount[pushed[i]] + cancelCount[pushed[i]] >= 1

\* C7: tasks are dequeued by taskRunner() in the order start() enqueued them.
C7_FifoDispatch ==
    \A i, j \in 1..Len(dequeued) :
        i < j => Pos(pushed, dequeued[i]) < Pos(pushed, dequeued[j])

\* C7 witness: two workers hold tasks at once, and a third task was queued
C7_Witness ==
    /\ Len(dequeued) >= 2
    /\ Cardinality(Executing) = 2
    /\ Len(pushed) = 3

\* C8: a single caller submits the tasks one after another, every start()
\* returns true: the run() bodies take effect in submission order.
C8_RunOrderIsSubmissionOrder ==
    (nbCallers = 1 /\ dpc = "alive" /\ \A t \in Called : result[t] = "true")
        => \A i, j \in 1..Len(executionOrder) :
               i < j => executionOrder[i] < executionOrder[j]

\* C9: N > maxThreadCount + maxNbWaiting calls on a fresh pool, all decided
\* before any task finishes: exactly maxThreadCount + maxNbWaiting return true.
\* (A caller thread that has returned from start() and calls again is to the
\* pool a new caller.)
C9_ExactAdmission ==
    (/\ nbCallers > 1
     /\ dpc = "alive"
     /\ finished = {}
     /\ nextTask - 1 > maxThreadCount + maxNbWaiting
     /\ \A t \in Called : result[t] # "none")
        => Cardinality({t \in Called : result[t] = "true"})
               = maxThreadCount + maxNbWaiting

\* C10: a start() call of a single sequential caller, made while fewer than
\* maxThreadCount + maxNbWaiting tasks are queued or executing and the pool is
\* not shutting down, returns true and cancels no task.  (Between the call and
\* the admission decision the monitor is held: the number of outstanding tasks
\* can only drop.)
C10_AdmitBelowCapacity ==
    [][\A c \in Callers :
          (/\ nbCallers = 1
           /\ dpc = "alive"
           /\ spc[c] = "admit"
           /\ spc'[c] # "admit"
           /\ Outstanding < maxThreadCount + maxNbWaiting)
              => (sret'[c] = TRUE /\ cancelCount' = cancelCount)]_vars

\* C11: isShuttingDown never goes back from true to false, and once it is true
\* no task is pushed onto the waiting queue any more, also by a start() call
\* that runs concurrently with shutdown().
C11_NoPushOnceShuttingDown ==
    [][isShuttingDown => (isShuttingDown' /\ pushed' = pushed)]_vars

\* the pool state a refused start() must leave alone: the queue, the counters,
\* the registry, the workers (none created, none signalled), the cancelRun() calls
Untouched ==
    UNCHANGED <<pool, isRunning, wpc, monitorNbSignale, waitNbWaiting, waitSem,
                cancelCount, runCount, pushed>>

\* C12: a start() call that finds isShuttingDown = true returns false and leaves
\* the pool as it was: both of its steps (the test under the monitor, then
\* monitorOut and return) change no pool state and invoke no cancelRun().
C12_RefusedStartChangesNothing ==
    [][\A c \in Callers :
          /\ (spc[c] = "idle" /\ spc'[c] # "idle" /\ isShuttingDown)
                => (spc'[c] = "out" /\ sret'[c] = FALSE /\ Untouched)
          /\ (spc[c] = "out" /\ runnable[c] \in shutdownRejected /\ spc'[c] = "idle")
                => (result'[runnable[c]] = "false" /\ Untouched)]_vars

\* C12 witness: a call made during shutdown, with a task still queued, has returned false
C12_Witness ==
    /\ isShuttingDown
    /\ waitingTasks # <<>>
    /\ \E t \in shutdownRejected : result[t] = "false"

\* C13: construction with maxThreadCount <= 0, maxNbWaiting < 0 or idleTimeout < 0
\* fails with invalid_argument and creates no worker and enqueues nothing;
\* construction with valid arguments succeeds and yields zero workers, an empty
\* queue, idleThreads = 0 and isShuttingDown = false.
C13_ConstructorValidates ==
    [][dpc = "new" =>
         IF maxThreadCount <= 0 \/ maxNbWaiting < 0 \/ idleTimeout < 0
         THEN /\ dpc' = "invalid_argument"
              /\ threadPool' = <<>> /\ threadCounter' = 0
              /\ \A w \in Threads : wpc'[w] = "none"
              /\ waitingTasks' = <<>> /\ pushed' = <<>>
         ELSE /\ dpc' = "alive"
              /\ threadPool' = <<>> /\ \A w \in Threads : wpc'[w] = "none"
              /\ waitingTasks' = <<>>
              /\ idleThreads' = 0
              /\ isShuttingDown' = FALSE]_vars

\* C13 witness: ThreadPool(0, n, t) with n, t valid was refused
C13_Witness ==
    /\ dpc = "invalid_argument"
    /\ maxThreadCount = 0 /\ maxNbWaiting >= 0 /\ idleTimeout >= 0

\* C14: when the destructor returns, every task execution has completed, every
\* worker thread has exited and been joined (currentNbThreads() = 0, the
\* registry is empty), and the waiting queue is empty.
C14_DestructorLeavesNothing ==
    [][(dpc # "done" /\ dpc' = "done")
          => (/\ Executing' = {}
              /\ NoWorkerLeft'
              /\ threadPool' = <<>>
              /\ waitingTasks' = <<>>)]_vars

\* the steps of threads that are inside the pool's code: everything but a new
\* start() call and the clock
Step ==
    \/ \E c \in Callers : start_admit(c) \/ start_resume(c) \/ start_monitorOut(c)
    \/ \E w \in Threads :
          \/ workerTask_loop(w) \/ taskRunner_monitorIn(w) \/ taskRunner_body(w)
          \/ taskRunner_signalled(w) \/ taskRunner_monitorOut(w)
          \/ run_end(w) \/ workerTask_post(w)
    \/ shutdown_signal \/ shutdown_signalled \/ shutdown_stop
    \/ shutdown_join \/ shutdown_drain

\* shutdown() has begun and has not returned
ShutdownInProgress == dpc \in {"signal", "signalled", "stop", "join", "drain"}

\* C15: shutdown never deadlocks.  Finite form: while shutdown() has not
\* returned, some thread inside the pool's code can take a step (a state where
\* none can is one shutdown() never leaves, under any scheduling).
C15_ShutdownNotStuck == ShutdownInProgress => ENABLED Step

\* C16: once shutdown has begun, every caller blocked in start() on waitForThread
\* is woken and its call returns, however many callers are blocked.  Finite
\* form: when shutdown() has returned (after which nothing signals
\* waitForThread any more), the callers that were blocked when it began and
\* still are do not outnumber the wake-ups left in the condition's semaphore
\* (every start() call in progress when shutdown began was a blocked one).
C16_BlockedCallersWoken ==
    (dpc = "done" /\ inStartAtShutdown = waitingAtShutdown)
        => Cardinality({c \in waitingAtShutdown : spc[c] = "wait"}) <= waitSem

\* C17: idle eviction.  Without shutdown, with every task body terminating and
\* submissions coming to an end, every worker finds no work past its idle
\* timeout and terminates: currentNbThreads() is eventually 0 for good.
C17_IdleEviction == <>[](currentNbThreads = 0)

\* C17 witness: all tasks submitted and run by two workers, which both ended on
\* the idle timeout (no shutdown); the registry still lists them, none is live
C17_Witness ==
    /\ dpc = "alive"
    /\ finished = Tasks
    /\ Len(threadPool) = 2
    /\ currentNbThreads = 0
    /\ NoWorkerLeft

\* C18: a failure raised by run() never terminates the worker that caught it:
\* out of the handler (taskRunner() returns false) the worker's running flag is
\* still true and it polls taskRunner() again, whatever the time elapsed.
C18_FailureKeepsWorker ==
    [][\A w \in Threads :
          (wpc[w] = "caught" /\ wpc'[w] # "caught")
              => (isRunning'[w] /\ wpc'[w] = "enter")]_vars

\* C19: in every reachable state idleThreads is at most the number of live
\* workers (currentNbThreads()).
C19_IdleAtMostLive == idleThreads <= currentNbThreads

\* threads inside a monitor section of start() or taskRunner() (a thread blocked
\* in wait() or signal() has handed the monitor over and is not counted)
InMonitorSection ==
    Cardinality({c \in Callers : spc[c] \in {"admit", "out"}})
        + Cardinality({w \in Threads : wpc[w] \in {"mon", "out"}})
\* the destroying thread executes the body of shutdown() (it is not counted
\* while blocked in signal() or join())
InShutdownBody == IF dpc \in {"signal", "stop", "drain"} THEN 1 ELSE 0

\* C20: at most one thread at a time executes code that reads or writes pool
\* state: the monitor sections of start() and taskRunner() and the body of
\* shutdown() never overlap.
C20_MutualExclusion == InMonitorSection + InShutdownBody <= 1

\* the live workers: registry entries whose running flag is true
Live == {w \in Threads : isRunning[w] /\ \E i \in 1..Len(threadPool) : threadPool[i] = w}

\* C21: a start() call on a pool that is not shutting down, made while no worker
\* is actually idle (every live worker, if any, is executing a task) and
\* currentNbThreads() < maxThreadCount, creates exactly one worker and returns
\* true, also after earlier workers terminated on the idle timeout.
C21_CreatesWorkerWhenNoneIdle ==
    [][\A c \in Callers :
          (/\ dpc = "alive"
           /\ spc[c] = "admit"
           /\ spc'[c] # "admit"
           /\ \A w \in Live : task[w] # NoTask
           /\ currentNbThreads < maxThreadCount)
              => (/\ threadCounter' = threadCounter + 1
                  /\ Len(threadPool') = Len(threadPool) + 1
                  /\ sret'[c] = TRUE)]_vars

\* C22: a caller blocks inside start() only in the waiting branch: at the moment
\* it starts waiting idleThreads = 0, currentNbThreads() = maxThreadCount and
\* the queue held fewer than maxNbWaiting tasks before its own task was pushed;
\* by starting to wait it gives the monitor up (wait() releases it).
C22_BlocksOnlyAtCapacity ==
    [][\A c \in Callers :
          (spc[c] # "wait" /\ spc'[c] = "wait")
              => (/\ spc[c] = "admit"
                  /\ idleThreads = 0
                  /\ currentNbThreads = maxThreadCount
                  /\ Len(waitingTasks) < maxNbWaiting
                  /\ Len(waitingTasks') = Len(waitingTasks) + 1
                  /\ monitorMutex' + monitorSignale'
                        = monitorMutex + monitorSignale + 1)]_vars

\* C22 witness: a caller waits with the queue full (maxNbWaiting = 2), the pool
\* at capacity, and the monitor free for others
C22_Witness ==
    /\ dpc = "alive"
    /\ maxNbWaiting = 2
    /\ \E c \in Callers : spc[c] = "wait"
    /\ Len(waitingTasks) = 2
    /\ currentNbThreads = maxThreadCount
    /\ monitorMutex = 1

\* C23: absent shutdown every start() call eventually returns: a caller blocked
\* waiting for capacity is eventually resumed by a worker that finds the queue
\* empty.  Finite form: when every worker has exited and idleThreads > 0 (so no
\* start() will ever create a worker again, and nothing will signal
\* waitForThread), the blocked callers do not outnumber the wake-ups pending.
C23_BlockedCallerResumed ==
    (dpc = "alive" /\ NoWorkerLeft /\ idleThreads > 0)
        => Cardinality({c \in Callers : spc[c] = "wait"}) <= waitSem

\* C24: a taskRunner() poll that finds the queue empty while the pool is not
\* shutting down adds exactly 1 to idleThreads (below the cap the model counts
\* up to), resumes exactly one blocked submitter if nbTasksWaitingForThreads > 0
\* and none otherwise, leaves the queue, the registry and isShuttingDown as they
\* are, and returns false (no task in hand, didWork false).
C24_EmptyPoll ==
    [][\A w \in Threads :
          /\ (/\ wpc[w] = "mon" /\ wpc'[w] # "mon"
               /\ ~isShuttingDown /\ waitingTasks = <<>>
               /\ idleThreads < IdleThreadsCap)
                 => (/\ idleThreads' = idleThreads + 1
                     /\ waitSem' = waitSem
                                     + (IF nbTasksWaitingForThreads > 0 THEN 1 ELSE 0)
                     /\ task'[w] = NoTask
                     /\ UNCHANGED <<waitingTasks, threadPool, threadCounter,
                                    isRunning, isShuttingDown>>)
          /\ (wpc[w] \in {"out", "signalled"} /\ task[w] = NoTask
                 /\ wpc'[w] \notin {"out", "signalled"})
                 => (wpc'[w] = "post" /\ didWork'[w] = FALSE)]_vars

\* the workers inside task->run()
Running == {w \in Threads : wpc[w] = "running"}

\* C25: a worker does not hold the monitor while it executes run(): with a task
\* executing, no thread in a monitor section and no signal in progress, the
\* monitor's mutex is free for start() and taskRunner() to enter (as long as
\* the pool is not being destroyed); and at most maxThreadCount workers are
\* executing tasks at the same instant.
C25_RunOutsideMonitor ==
    /\ Cardinality(Running) <= maxThreadCount
    /\ (/\ dpc = "alive" /\ Running # {}
         /\ InMonitorSection = 0 /\ monitorNbSignale = 0)
            => monitorMutex = 1

\* C25 witness: two workers execute tasks at once while a caller is inside
\* start()'s monitor section
C25_Witness ==
    /\ maxThreadCount = 2
    /\ Cardinality(Running) = 2
    /\ \E c \in Callers : spc[c] = "admit"

\* C26: a worker never abandons a task mid-run: every run() that was started and
\* has not returned yet is in the hands of a worker thread that is still inside
\* it, on idle timeout as well as when shutdown clears the running flag.
C26_NoAbandonedRun ==
    \A t \in Tasks :
        (runCount[t] >= 1 /\ t \notin finished)
            => \E w \in Threads : task[w] = t /\ wpc[w] = "running"

\* C26 witness: ~ThreadInfo has cleared the running flag of a worker that is
\* inside run(), and waits in join()
C26_Witness ==
    /\ dpc = "join"
    /\ wpc[threadPool[di]] = "running"
    /\ ~isRunning[threadPool[di]]

\* C27: outside shutdown a worker goes from live to terminated only at a poll
\* that yielded no work and only when at least idleTimeout has elapsed since it
\* last completed a task (or since it started); a poll that yields no work
\* before the timeout has elapsed leaves the worker live and polling.
C27_TerminatesOnlyIdle ==
    [][\A w \in Threads :
          dpc = "alive" =>
             /\ (isRunning[w] /\ ~isRunning'[w])
                    => (wpc[w] = "post" /\ ~didWork[w] /\ elapsed[w] >= idleTimeout)
             /\ (/\ wpc[w] = "post" /\ wpc'[w] # "post"
                  /\ ~didWork[w] /\ elapsed[w] < idleTimeout)
                    => (isRunning'[w] /\ wpc'[w] = "enter")]_vars

\* C28: at every point where no start() call is in progress and the pool is not
\* shutting down, a non-empty waiting queue implies at least one live worker.
C28_QueuedTaskHasWorker ==
    (NoStartInProgress /\ dpc = "alive" /\ waitingTasks # <<>>)
        => currentNbThreads >= 1

Blocked == {c \in Callers : spc[c] = "wait"}
BlockedQueued == {c \in Blocked : Pos(waitingTasks, runnable[c]) > 0}

\* C30 as stated: the number of callers blocked inside start() waiting for
\* capacity never exceeds maxNbWaiting.
C30_BlockedAtMostMaxWaiting == Cardinality(Blocked) <= maxNbWaiting

\* C30, amended: the number of blocked callers whose task is still in the
\* waiting queue never exceeds maxNbWaiting (a caller stays blocked after a
\* worker has dequeued its task, until some worker polls an empty queue).
C30_BlockedQueuedAtMostMaxWaiting == Cardinality(BlockedQueued) <= maxNbWaiting

\* C30 witness: more callers blocked than maxNbWaiting, one of them with its
\* task already being executed
C30_Witness ==
    /\ dpc = "alive"
    /\ Cardinality(Blocked) > maxNbWaiting
    /\ \E c \in Blocked : \E w \in Running : task[w] = runnable[c]

\* no thread is inside the monitor: none executes a monitor section of start()
\* or taskRunner(), none is blocked in signal(), and no woken caller is about
\* to continue after wait()
NoThreadInMonitor == InMonitorSection = 0 /\ monitorNbSignale = 0 /\ waitSem = 0

\* C31: on a constructed pool, whenever no thread is inside the monitor,
\* nbTasksWaitingForThreads equals the number of callers blocked on
\* waitForThread in start() (so it is 0 after construction and never wraps
\* below 0), also after the signals of workers and of shutdown().
C31_WaitingCounter ==
    (dpc \notin {"new", "invalid_argument"} /\ NoThreadInMonitor)
        => nbTasksWaitingForThreads = Cardinality(Blocked)

====
